---- MODULE Spec2Model ----
(***************************************************************************)
(* Model of eval_ke.py: the batch generator get_data (a Python generator   *)
(* with a try / except StopIteration / finally: yield body), the test      *)
(* function and the linear pipeline of main.                               *)
(*                                                                         *)
(* Specifications:                                                         *)
(*   Spec      a consumer drives one get_data generator directly, with     *)
(*             every parameter combination get_data accepts;               *)
(*   FairSpec  Spec with the consumer and the generator scheduled fairly;  *)
(*   MainSpec  main() runs its stages and evaluate_generator drives the    *)
(*             generator built at lines 221-225.                           *)
(***************************************************************************)
EXTENDS Integers, Sequences, FiniteSets, TLC

(***************************************************************************)
(* Bounds of the model.                                                    *)
(***************************************************************************)
MaxN == 3          \* batches per epoch of the data iterator: 0..MaxN
MaxReq == 8        \* requests the direct consumer of Spec makes
MaxWarm == 2       \* warm_batches_up_for_reporting values tried in Spec: 0..MaxWarm
BatchN == 2        \* samples per batch (axis n)
Chan == 2          \* channels (axis c)
Height == 1        \* rows (axis h)
Width == 3         \* columns (axis w)
MaxLabel == 2      \* integer labels are 0..MaxLabel

(***************************************************************************)
(* Program constants.                                                      *)
(***************************************************************************)
DefaultWarm == 100     \* default of warm_batches_up_for_reporting
NumClassesMain == 1000 \* num_classes in main
val_size == 50000      \* val_size in main

NoTime == "None"   \* last_time = None
Unbound == -1      \* the local db before its first assignment

VARIABLES
    \* the data iterator `it` (environment): batches per epoch, whether
    \* reset() rewinds it, and the position inside the epoch
    itN, itRefill, itPos,
    \* parameters of get_data
    batch_size, num_classes, report_speed, warm,
    \* locals of get_data
    ctr, warm_up_done, last_time, db,
    \* control state of the generator: where it is, the exception in flight
    \* through the finally block, the error it ended with, the pair it
    \* yielded last
    gpc, pending, gerr, out,
    \* history of the run: counters of requests, yields, iterator calls, and
    \* the lines get_data printed
    obs, printed,
    \* main(): position, parsed args, the stages run so far, the log lines,
    \* the error main ended with, steps passed to evaluate_generator
    mpc, args, stages, logs, merr, steps

itVars == <<itN, itRefill, itPos>>
parVars == <<batch_size, num_classes, report_speed, warm>>
locVars == <<ctr, warm_up_done, last_time, db>>
genVars == <<gpc, pending, gerr, out>>
mainVars == <<mpc, args, stages, logs, merr, steps>>
vars == <<itN, itRefill, itPos, batch_size, num_classes, report_speed, warm,
          ctr, warm_up_done, last_time, db, gpc, pending, gerr, out,
          obs, printed, mpc, args, stages, logs, merr, steps>>

(***************************************************************************)
(* Arrays.  An array is a record [shape, at]: at maps an index tuple       *)
(* (1-based) to the element.                                               *)
(***************************************************************************)
RECURSIVE Indices(_)
Indices(shape) ==
    IF shape = <<>> THEN {<<>>}
    ELSE {<<i>> \o rest : i \in 1..Head(shape), rest \in Indices(Tail(shape))}

\* The batch the iterator delivers as number b: db.data[0] in layout
\* (n, c, h, w), every element distinct.
BatchData(b) ==
    [shape |-> <<BatchN, Chan, Height, Width>>,
     at |-> [idx \in Indices(<<BatchN, Chan, Height, Width>>) |->
                ((((b * BatchN + idx[1]) * Chan + idx[2]) * Height + idx[3]) * Width
                    + idx[4])]]

\* db.label[0]: one integer label per sample.
BatchLabel(b) ==
    [shape |-> <<BatchN>>,
     at |-> [idx \in Indices(<<BatchN>>) |-> (b + idx[1]) % (MaxLabel + 1)]]

\* numpy transpose(axes): axis k of the result is axis axes[k] of a.
transpose(a, axes) ==
    LET rank == Len(a.shape)
        shp == [k \in 1..rank |-> a.shape[axes[k]]]
        src(idx) == [m \in 1..rank |-> idx[CHOOSE k \in 1..rank : axes[k] = m]]
    IN [shape |-> shp, at |-> [idx \in Indices(shp) |-> a.at[src(idx)]]]

\* keras to_categorical: a (n, classes) matrix, row i all 0 but a 1 in
\* column y[i]; columns are 0..classes-1.
to_categorical(y, classes) ==
    [i \in 1..y.shape[1] |->
        [col \in 0..(classes - 1) |-> IF col = y.at[<<i>>] THEN 1 ELSE 0]]

\* the slip (0, 3, 1, 2): the permutation from channel-last to channel-first
ChannelLastInverted == <<1, 4, 2, 3>>

\* the axes of line 111, (0, 2, 3, 1), 1-based
ChannelLast == <<1, 3, 4, 2>>

get_arrays(b, classes) ==
    [images |-> transpose(BatchData(b), ChannelLast),
     labels |-> to_categorical(BatchLabel(b), classes)]

(***************************************************************************)
(* The data iterator.  it.next() returns the batch at the position, or     *)
(* signals exhaustion at the end of the epoch, or fails in any other way   *)
(* (IOError stands for every error that is not StopIteration).             *)
(***************************************************************************)
it_next(pos) ==
    {IF pos < itN THEN [kind |-> "batch", b |-> pos]
                  ELSE [kind |-> "StopIteration", b |-> Unbound],
     [kind |-> "IOError", b |-> Unbound]}

\* it.reset(): the position after it
it_reset(pos) == IF itRefill THEN 0 ELSE pos

\* the handler with the reset left out
reset_skipped(pos) == pos

\* line 139: the handler resets the iterator
reset_iterator(pos) == it_reset(pos)

(***************************************************************************)
(* time() at lines 127 and 134.  Line 2 binds the name `time` to the       *)
(* module, and no other line rebinds it, so the call raises TypeError      *)
(* ('module' object is not callable).                                      *)
(***************************************************************************)
time_call == "TypeError"

\* the comparison off by one
warm_up_reached_early(c, w) == c >= warm /\ ~w

\* line 132
warm_up_reached(c, w) == c > warm /\ ~w

(***************************************************************************)
(* Lines 123-135, run after a successful it.next() with ctr already        *)
(* incremented to c: the values of the locals after the block, the         *)
(* exception it raised ("none" if it completed), the reports it printed.   *)
(***************************************************************************)
report_block(c, w, lt) ==
    LET same == [ctr |-> c, warm_up_done |-> w, last_time |-> lt,
                 exc |-> "none", reports |-> <<>>, zeroed |-> FALSE]
    IN  IF ~report_speed THEN same
        ELSE IF w /\ time_call # "ok"
            THEN [same EXCEPT !.exc = time_call]              \* line 127 raises
        ELSE LET r1 == IF w THEN [same EXCEPT !.reports = <<c>>] \* line 130
                            ELSE same
             IN  IF ~warm_up_reached(c, w) THEN r1
                 ELSE IF time_call # "ok"
                     THEN [r1 EXCEPT !.ctr = 0, !.zeroed = TRUE,  \* line 133,
                                     !.exc = time_call]           \* 134 raises
                 ELSE [r1 EXCEPT !.ctr = 0, !.zeroed = TRUE,
                                 !.last_time = "t", !.warm_up_done = TRUE]

(***************************************************************************)
(* History.                                                                *)
(***************************************************************************)
obs0 ==
    [nreq |-> 0,        \* requests made of the generator (next(gen))
     nyield |-> 0,      \* pairs yielded
     lastY |-> Unbound, \* batch number the last yielded pair was built from
     prevY |-> Unbound, \* batch number of the yield before the current request
     nexh |-> 0,        \* StopIteration raised by the fetch of line 120
     nreset |-> 0,      \* it.reset() calls
     calls |-> <<>>,    \* iterator calls made for the current request
     got |-> Unbound,   \* batch the last it.next() of this request returned
     fetched |-> Unbound, \* batch the last successful it.next() returned
     yieldedReq |-> 0,  \* pairs yielded for the current request
     faultReq |-> FALSE,\* an it.next() of this request failed with IOError
     exh2Req |-> FALSE, \* the it.next() of line 140 raised StopIteration
     faulted |-> FALSE, \* some it.next() failed with IOError
     zeroings |-> 0,    \* executions of line 133
     overWarm |-> 0,    \* successful fetches of line 120 made with ctr > warm
     zeroOk |-> TRUE,   \* each line 133 ran at the first of those fetches
     postWarm |-> 0,    \* successful fetches of line 120 after line 133 ran
     earlyReport |-> FALSE, \* a report was printed before line 133 ran
     sinceWarm |-> 0,   \* pairs yielded since warm_up_done became true
     reportOk |-> TRUE] \* every report's ctr equalled sinceWarm

printed0 == [resets |-> 0, reports |-> <<>>]

(***************************************************************************)
(* next(gen): the consumer resumes the generator.  A fresh generator runs  *)
(* lines 105-107 and enters the loop; a generator suspended at the yield   *)
(* of line 143 leaves the finally block, which re-raises the exception in  *)
(* flight, if any, and otherwise loops.  StopIteration leaving a generator *)
(* body ends it silently before Python 3.7 and becomes RuntimeError from   *)
(* 3.7 on.                                                                 *)
(***************************************************************************)
surfaced(e) == IF e = "StopIteration" THEN {"RuntimeError", "StopIteration"} ELSE {e}

gen_resume ==
    /\ gpc \in {"created", "suspended"}
    /\ obs' = [obs EXCEPT !.nreq = @ + 1, !.calls = <<>>, !.got = Unbound,
                          !.yieldedReq = 0, !.faultReq = FALSE, !.exh2Req = FALSE,
                          !.prevY = obs.lastY]
    /\ IF gpc = "created"
       THEN /\ ctr' = 0 /\ warm_up_done' = FALSE /\ last_time' = NoTime
            /\ gpc' = "try"
            /\ UNCHANGED <<pending, gerr, db>>
       ELSE IF pending = "none"
       THEN /\ gpc' = "try"
            /\ UNCHANGED <<pending, gerr, locVars>>
       ELSE /\ gpc' = "dead"
            /\ gerr' \in surfaced(pending)
            /\ pending' = "none"
            /\ UNCHANGED locVars
    /\ UNCHANGED <<itVars, parVars, out, printed>>

\* lines 118-135: the body of the try block
get_data_try ==
    /\ gpc = "try"
    /\ UNCHANGED mainVars
    /\ \E o \in it_next(itPos) :
        LET c == ctr + 1                                      \* line 119
            r == report_block(c, warm_up_done, last_time)
        IN  CASE o.kind = "batch" ->
                    /\ db' = o.b /\ itPos' = itPos + 1
                    /\ ctr' = r.ctr /\ warm_up_done' = r.warm_up_done
                    /\ last_time' = r.last_time
                    /\ pending' = r.exc
                    /\ gpc' = "finally"
                    /\ printed' = [printed EXCEPT !.reports = @ \o r.reports]
                    /\ obs' = [obs EXCEPT
                          !.calls = Append(@, "next"), !.got = o.b, !.fetched = o.b,
                          !.zeroings = IF r.zeroed THEN @ + 1 ELSE @,
                          !.overWarm = IF c > warm THEN @ + 1 ELSE @,
                          !.zeroOk = @ /\ (r.zeroed => c > warm /\ obs.overWarm = 0),
                          !.postWarm = IF obs.zeroings > 0 THEN @ + 1 ELSE @,
                          !.earlyReport = @ \/ (r.reports # <<>> /\ obs.zeroings = 0),
                          !.reportOk = @ /\ (r.reports # <<>> => c = obs.sinceWarm)]
              [] o.kind = "StopIteration" ->
                    /\ ctr' = c
                    /\ gpc' = "except"
                    /\ obs' = [obs EXCEPT !.calls = Append(@, "next"), !.nexh = @ + 1]
                    /\ UNCHANGED <<db, itPos, warm_up_done, last_time, pending, printed>>
              [] o.kind = "IOError" ->
                    /\ ctr' = c
                    /\ pending' = "IOError"
                    /\ gpc' = "finally"
                    /\ obs' = [obs EXCEPT !.calls = Append(@, "next"),
                                          !.faultReq = TRUE, !.faulted = TRUE]
                    /\ UNCHANGED <<db, itPos, warm_up_done, last_time, printed>>
    /\ UNCHANGED <<itN, itRefill, parVars, gerr, out>>

\* lines 137-140: the handler of StopIteration
get_data_except ==
    /\ gpc = "except"
    /\ UNCHANGED mainVars
    /\ printed' = [printed EXCEPT !.resets = @ + 1]           \* line 138
    /\ \E o \in it_next(reset_iterator(itPos)) :                    \* lines 139, 140
        /\ gpc' = "finally"
        /\ CASE o.kind = "batch" ->
                    /\ db' = o.b /\ itPos' = reset_iterator(itPos) + 1
                    /\ pending' = "none"
                    /\ obs' = [obs EXCEPT !.calls = @ \o <<"reset", "next">>,
                                          !.nreset = @ + 1, !.got = o.b,
                                          !.fetched = o.b]
              [] o.kind = "StopIteration" ->
                    /\ itPos' = reset_iterator(itPos)
                    /\ pending' = "StopIteration"
                    /\ obs' = [obs EXCEPT !.calls = @ \o <<"reset", "next">>,
                                          !.nreset = @ + 1, !.exh2Req = TRUE]
                    /\ UNCHANGED db
              [] o.kind = "IOError" ->
                    /\ itPos' = reset_iterator(itPos)
                    /\ pending' = "IOError"
                    /\ obs' = [obs EXCEPT !.calls = @ \o <<"reset", "next">>,
                                          !.nreset = @ + 1,
                                          !.faultReq = TRUE, !.faulted = TRUE]
                    /\ UNCHANGED db
    /\ UNCHANGED <<itN, itRefill, parVars, ctr, warm_up_done, last_time, gerr, out>>

\* lines 142-143: the finally block evaluates get_arrays(db) and yields it;
\* an unassigned db raises UnboundLocalError, which replaces the exception
\* in flight.
get_data_finally ==
    /\ gpc = "finally"
    /\ UNCHANGED mainVars
    /\ IF db = Unbound
       THEN /\ gpc' = "dead"
            /\ gerr' = "UnboundLocalError"
            /\ pending' = "none"
            /\ UNCHANGED <<out, obs>>
       ELSE /\ out' = <<get_arrays(db, num_classes)>>
            /\ gpc' = "suspended"
            /\ obs' = [obs EXCEPT !.nyield = @ + 1, !.lastY = db,
                                  !.yieldedReq = @ + 1,
                                  !.sinceWarm = IF warm_up_done THEN @ + 1 ELSE @]
            /\ UNCHANGED <<gerr, pending>>
    /\ UNCHANGED <<itVars, parVars, locVars, printed>>

(***************************************************************************)
(* Spec: a consumer calls next() on one generator up to MaxReq times.      *)
(***************************************************************************)
args0 == [use_pretrained |-> FALSE, resume |-> <<>>]

Init ==
    /\ itN \in 0..MaxN /\ itRefill \in BOOLEAN /\ itPos = 0
    /\ batch_size = 1
    /\ num_classes \in {MaxLabel + 1, MaxLabel + 2}
    /\ report_speed \in BOOLEAN
    /\ warm \in 0..MaxWarm
    /\ ctr = 0 /\ warm_up_done = FALSE /\ last_time = NoTime /\ db = Unbound
    /\ gpc = "created" /\ pending = "none" /\ gerr = "none" /\ out = <<>>
    /\ obs = obs0 /\ printed = printed0
    /\ mpc = "consumer" /\ args = args0 /\ stages = <<>> /\ logs = <<>>
    /\ merr = "none" /\ steps = 0

consumer_next ==
    /\ mpc = "consumer"
    /\ obs.nreq < MaxReq
    /\ gen_resume
    /\ UNCHANGED mainVars

Next == consumer_next \/ get_data_try \/ get_data_except \/ get_data_finally

Spec == Init /\ [][Next]_vars

(***************************************************************************)
(* main().  mpc names the statement main is about to run.                  *)
(***************************************************************************)
Whitespace == {" ", "\t", "\n"}

RECURSIVE lstrip(_)
lstrip(str) ==
    IF str # <<>> /\ Head(str) \in Whitespace THEN lstrip(Tail(str)) ELSE str

RECURSIVE rstrip(_)
rstrip(str) ==
    IF str # <<>> /\ str[Len(str)] \in Whitespace
    THEN rstrip(SubSeq(str, 1, Len(str) - 1)) ELSE str

\* str.strip(): the string without its leading and trailing whitespace
strip(str) == rstrip(lstrip(str))

\* values of --resume tried: absent (the default ''), blank, a path, a
\* path with blanks around it
ResumeValues == {<<>>, <<" ">>, <<"w">>, <<" ", "w", "\n">>}

\* values prepare_ke_context returns as batch_size
BatchSizes == {490, 491, 512, 50000}

\* the generator built before the iterators it wraps
StageOrderWrapFirst ==
    <<"parse_args", "initialize_logging", "prepare_ke_context", "prepare_model",
      "get_data", "get_data_rec", "assert", "backend_agnostic_compile",
      "evaluate_generator", "log_results", "done">>

\* the statements of main and test in source order
StageOrder ==
    <<"parse_args", "initialize_logging", "prepare_ke_context", "prepare_model",
      "get_data_rec", "get_data", "assert", "backend_agnostic_compile",
      "evaluate_generator", "log_results", "done">>

after(stage) == StageOrder[(CHOOSE i \in 1..Len(StageOrder) : StageOrder[i] = stage) + 1]

\* the assertion on the unstripped --resume
assert_holds_unstripped(a) == a.use_pretrained \/ a.resume # <<>>

\* line 228: the asserted expression (a non-empty string is true)
assert_holds(a) == a.use_pretrained \/ strip(a.resume) # <<>>

\* the lines test logs, lines 173 and 180-184
ResultLines == <<"Model: trainable parameters", "Time cost", "score",
                 "Test score", "Test accuracy">>

MainInit ==
    /\ itN = 0 /\ itRefill = FALSE /\ itPos = 0
    /\ batch_size = 0 /\ num_classes = 0 /\ report_speed = FALSE /\ warm = 0
    /\ ctr = 0 /\ warm_up_done = FALSE /\ last_time = NoTime /\ db = Unbound
    /\ gpc = "none" /\ pending = "none" /\ gerr = "none" /\ out = <<>>
    /\ obs = obs0 /\ printed = printed0
    /\ mpc = "parse_args" /\ args = args0 /\ stages = <<>> /\ logs = <<>>
    /\ merr = "none" /\ steps = 0

genAll == <<itVars, parVars, locVars, genVars, obs, printed>>

\* line 188
main_parse_args ==
    /\ mpc = "parse_args"
    /\ \E p \in BOOLEAN, r \in ResumeValues :
          args' = [use_pretrained |-> p, resume |-> r]
    /\ stages' = Append(stages, "parse_args")
    /\ mpc' = after("parse_args")
    /\ UNCHANGED <<genAll, logs, merr, steps>>

\* lines 190-195
main_initialize_logging ==
    /\ mpc = "initialize_logging"
    /\ stages' = Append(stages, "initialize_logging")
    /\ mpc' = after("initialize_logging")
    /\ UNCHANGED <<genAll, args, logs, merr, steps>>

\* lines 197-199
main_prepare_ke_context ==
    /\ mpc = "prepare_ke_context"
    /\ batch_size' \in BatchSizes
    /\ stages' = Append(stages, "prepare_ke_context")
    /\ mpc' = after("prepare_ke_context")
    /\ UNCHANGED <<itVars, num_classes, report_speed, warm, locVars, genVars,
                   obs, printed, args, logs, merr, steps>>

\* lines 201-206
main_prepare_model ==
    /\ mpc = "prepare_model"
    /\ num_classes' = NumClassesMain
    /\ stages' = Append(stages, "prepare_model")
    /\ mpc' = after("prepare_model")
    /\ UNCHANGED <<itVars, batch_size, report_speed, warm, locVars, genVars,
                   obs, printed, args, logs, merr, steps>>

\* epoch lengths of val_data tried: the small ones, and the batches that
\* val_size samples make
EpochSizes(bs) == (0..MaxN) \cup {(val_size + bs - 1) \div bs}

\* lines 208-214: val_data is an iterator at the start of its epoch
main_get_data_rec ==
    /\ mpc = "get_data_rec"
    /\ itN' \in EpochSizes(batch_size) /\ itRefill' \in BOOLEAN /\ itPos' = 0
    /\ stages' = Append(stages, "get_data_rec")
    /\ mpc' = after("get_data_rec")
    /\ UNCHANGED <<parVars, locVars, genVars, obs, printed, args, logs, merr, steps>>

\* lines 221-226: calling a generator function creates the generator and
\* runs none of its body
main_get_data ==
    /\ mpc = "get_data"
    /\ report_speed' = TRUE /\ warm' = DefaultWarm
    /\ gpc' = "created"
    /\ stages' = Append(stages, "get_data")
    /\ mpc' = after("get_data")
    /\ UNCHANGED <<itVars, batch_size, num_classes, locVars, pending, gerr, out,
                   obs, printed, args, logs, merr, steps>>

\* line 228
main_assert ==
    /\ mpc = "assert"
    /\ stages' = Append(stages, "assert")
    /\ IF assert_holds(args)
       THEN mpc' = after("assert") /\ UNCHANGED merr
       ELSE mpc' = "aborted" /\ merr' = "AssertionError"
    /\ UNCHANGED <<genAll, args, logs, steps>>

\* lines 154-163
test_backend_agnostic_compile ==
    /\ mpc = "backend_agnostic_compile"
    /\ stages' = Append(stages, "backend_agnostic_compile")
    /\ mpc' = after("backend_agnostic_compile")
    /\ UNCHANGED <<genAll, args, logs, merr, steps>>

\* lines 166-170: evaluate_generator is called with steps = val_size // batch_size
test_evaluate_generator ==
    /\ mpc = "evaluate_generator"
    /\ steps' = val_size \div batch_size
    /\ stages' = Append(stages, "evaluate_generator")
    /\ mpc' = "evaluating"
    /\ UNCHANGED <<genAll, args, logs, merr>>

\* evaluate_generator takes the next pair of val_gen while it needs one
evaluate_next ==
    /\ mpc = "evaluating"
    /\ obs.nyield < steps
    /\ gen_resume
    /\ UNCHANGED mainVars

\* an error of the generator ends evaluate_generator, test and main
evaluate_raise ==
    /\ mpc = "evaluating"
    /\ gpc = "dead"
    /\ mpc' = "aborted"
    /\ merr' = gerr
    /\ UNCHANGED <<genAll, args, stages, logs, steps>>

\* evaluate_generator returns the score after steps pairs
evaluate_return ==
    /\ mpc = "evaluating"
    /\ gpc \in {"created", "suspended"}
    /\ obs.nyield = steps
    /\ mpc' = after("evaluate_generator")
    /\ UNCHANGED <<genAll, args, stages, logs, merr, steps>>

\* lines 171-184
test_log_results ==
    /\ mpc = "log_results"
    /\ logs' = logs \o ResultLines
    /\ stages' = Append(stages, "log_results")
    /\ mpc' = after("log_results")
    /\ UNCHANGED <<genAll, args, merr, steps>>

\* any call into the framework may raise; the error ends main
FrameworkStages ==
    {"initialize_logging", "prepare_ke_context", "prepare_model", "get_data_rec",
     "backend_agnostic_compile", "evaluating"}

framework_raise ==
    /\ mpc \in FrameworkStages
    /\ mpc' = "aborted"
    /\ merr' = "FrameworkError"
    /\ UNCHANGED <<genAll, args, stages, logs, steps>>

MainNext ==
    \/ main_parse_args \/ main_initialize_logging \/ main_prepare_ke_context
    \/ main_prepare_model \/ main_get_data_rec \/ main_get_data \/ main_assert
    \/ test_backend_agnostic_compile \/ test_evaluate_generator
    \/ evaluate_next \/ get_data_try \/ get_data_except \/ get_data_finally
    \/ evaluate_raise \/ evaluate_return
    \/ test_log_results \/ framework_raise

MainSpec == MainInit /\ [][MainNext]_vars

\* the direct consumer, scheduled fairly: a request or a step of the
\* generator that can be taken is taken
FairSpec == Spec /\ WF_vars(Next)

(***************************************************************************)
(* Properties.                                                             *)
(***************************************************************************)
InSeq(x, seq) == \E i \in DOMAIN seq : seq[i] = x

\* the iterator delivers itN >= 1 batches per epoch, signals exhaustion
\* until reset, and no it.next() failed otherwise
WellBehaved == itN >= 1 /\ itRefill /\ ~obs.faulted

\* the generator is between requests
AtRest == gpc \in {"created", "suspended", "dead"}

C1_Pre == ~report_speed /\ WellBehaved

C1_Safe ==
    C1_Pre =>
        /\ gpc # "dead" /\ gerr = "none"
        /\ obs.nyield = IF gpc \in {"created", "suspended"} THEN obs.nreq
                                                            ELSE obs.nreq - 1
        /\ obs.nyield >= 1 =>
              /\ obs.lastY = (obs.nyield - 1) % itN
              /\ out = <<get_arrays((obs.nyield - 1) % itN, num_classes)>>

\* C1: with report_speed disabled and an iterator of N >= 1 batches per
\* epoch that signals exhaustion until reset, the generator never ends,
\* every request is answered, and the k-th pair yielded is built from batch
\* (k-1) mod N.
C1_RoundRobin == []C1_Safe /\ <>(C1_Pre => obs.nyield = MaxReq)

C1_Witness ==
    /\ C1_Pre /\ gpc = "suspended"
    /\ itN = 2 /\ obs.nyield = 2 * itN + 1 /\ obs.nreset = 2 /\ obs.lastY = 0

\* C2: every pair yielded is (images, labels): images is the fetched
\* batch's data with layout (n, c, h, w) permuted to (n, h, w, c); labels
\* has one row per sample and num_classes columns, with a single 1 in the
\* column of the sample's label.
C2_Pairs ==
    gpc = "suspended" =>
        LET p == out[1]
            b == obs.fetched
        IN  /\ out # <<>> /\ obs.lastY = b /\ b \in 0..(itN - 1)
            /\ p.images.shape = <<BatchN, Height, Width, Chan>>
            /\ DOMAIN p.images.at = (1..BatchN) \X (1..Height) \X (1..Width) \X (1..Chan)
            /\ \A n \in 1..BatchN, c \in 1..Chan, h \in 1..Height, w \in 1..Width :
                    p.images.at[<<n, h, w, c>>] = BatchData(b).at[<<n, c, h, w>>]
            /\ DOMAIN p.labels = 1..BatchN
            /\ \A i \in 1..BatchN :
                    /\ DOMAIN p.labels[i] = 0..(num_classes - 1)
                    /\ p.labels[i][BatchLabel(b).at[<<i>>]] = 1
                    /\ \A col \in 0..(num_classes - 1) :
                          col # BatchLabel(b).at[<<i>>] => p.labels[i][col] = 0

C2_Witness ==
    /\ gpc = "suspended" /\ obs.lastY = 1 /\ obs.nreset >= 1
    /\ num_classes = MaxLabel + 2
    /\ out[1].labels[1][BatchLabel(1).at[<<1>>]] = 1

\* C4: with report_speed enabled the generator keeps answering requests
\* past the warm-up, yields the same sequence of batches as with
\* report_speed disabled, and prints a report for every successful fetch of
\* line 120 after the warm-up.
C4_Claim ==
    (report_speed /\ WellBehaved) =>
        /\ gpc # "dead"
        /\ obs.nyield = IF gpc \in {"created", "suspended"} THEN obs.nreq
                                                            ELSE obs.nreq - 1
        /\ obs.nyield >= 1 => obs.lastY = (obs.nyield - 1) % itN
        /\ AtRest => Len(printed.reports) = obs.postWarm

\* C5: a failure of it.next() other than exhaustion ends the request with
\* that error: nothing is yielded for the request, the iterator is not
\* reset after the failure, and the error is not replaced by another.
C5_Claim ==
    obs.faultReq =>
        /\ obs.yieldedReq = 0
        /\ obs.calls[Len(obs.calls)] = "next"
        /\ gpc = "dead" => gerr = "IOError"
        /\ gpc \in {"finally", "dead"}

\* C8: reset is called once per exhaustion of the fetch of line 120 and
\* never otherwise; a reset is followed by exactly one it.next(), whose
\* batch is the one yielded for the request; a request gets one batch,
\* with or without a reset.
C8_Claim ==
    /\ AtRest => obs.nreset = obs.nexh
    /\ obs.nreset <= obs.nexh /\ obs.nexh <= obs.nreset + 1
    /\ printed.resets = obs.nreset
    /\ obs.calls \in {<<>>, <<"next">>, <<"next", "reset", "next">>}
    /\ obs.yieldedReq <= 1
    /\ gpc = "suspended" =>
          /\ obs.yieldedReq = 1
          /\ InSeq("reset", obs.calls) => obs.lastY = obs.got

C9_Safe ==
    report_speed =>
        /\ obs.zeroings <= 1
        /\ obs.zeroOk
        /\ ~obs.earlyReport
        /\ obs.zeroings = 0 => printed.reports = <<>> /\ ~warm_up_done
        /\ obs.reportOk

C10_Claim ==
    obs.exh2Req =>
        /\ obs.yieldedReq = 0
        /\ obs.calls = <<"next", "reset", "next">>
        /\ gpc \in {"finally", "dead"}
        /\ gpc = "dead" => gerr # "none"

(***************************************************************************)
(* Properties of main.                                                     *)
(***************************************************************************)
AllBlank(str) == \A i \in DOMAIN str : str[i] \in Whitespace

\* C3: main ends with AssertionError exactly when it reaches line 228 with
\* --use-pretrained absent and --resume blank; then evaluation is never
\* invoked and nothing is logged.  When either is supplied the assertion
\* passes and test is entered.
C3_AssertGate ==
    /\ merr = "AssertionError" <=>
          (InSeq("assert", stages) /\ ~args.use_pretrained /\ AllBlank(args.resume))
    /\ merr = "AssertionError" =>
          /\ mpc = "aborted"
          /\ ~InSeq("backend_agnostic_compile", stages)
          /\ ~InSeq("evaluate_generator", stages)
          /\ obs.nreq = 0 /\ logs = <<>>
    /\ (InSeq("assert", stages) /\ (args.use_pretrained \/ ~AllBlank(args.resume))) =>
          /\ mpc \in {"backend_agnostic_compile", "evaluate_generator", "evaluating",
                      "log_results", "done", "aborted"}
          /\ (mpc \in {"done", "aborted"} /\ merr # "FrameworkError") =>
                InSeq("evaluate_generator", stages)

C3_Witness ==
    /\ mpc = "aborted" /\ merr = "AssertionError"
    /\ args.resume = <<" ">> /\ gpc = "created"

\* C6: a run with a pretrained flag or resume path, no failing framework
\* call and a well-behaved iterator gets its val_size // batch_size batches
\* and logs the time cost, score, test score and test accuracy once each.
C6_Claim ==
    (InSeq("assert", stages) /\ assert_holds(args) /\ merr # "FrameworkError"
        /\ (InSeq("get_data_rec", stages) => WellBehaved)) =>
        /\ mpc # "aborted"
        /\ mpc \in {"log_results", "done"} => obs.nyield = val_size \div batch_size
        /\ mpc = "done" => logs = ResultLines

ExpectedStages ==
    <<"parse_args", "initialize_logging", "prepare_ke_context", "prepare_model",
      "get_data_rec", "get_data", "assert", "backend_agnostic_compile",
      "evaluate_generator", "log_results">>

\* C7: main runs parse_args, initialize_logging, prepare_ke_context,
\* prepare_model, get_data_rec, get_data, the assertion, test's compile,
\* evaluate_generator and the result logging in this order, each at most
\* once; results are logged only after evaluate_generator returned, and no
\* batch is fetched before evaluate_generator is invoked.
C7_Pipeline ==
    /\ Len(stages) <= Len(ExpectedStages)
    /\ stages = SubSeq(ExpectedStages, 1, Len(stages))
    /\ mpc \notin {"aborted", "done", "evaluating"} =>
          mpc = ExpectedStages[Len(stages) + 1]
    /\ mpc = "evaluating" => stages[Len(stages)] = "evaluate_generator"
    /\ mpc = "done" => stages = ExpectedStages
    /\ logs \in {<<>>, ResultLines}
    /\ logs # <<>> =>
          /\ InSeq("evaluate_generator", stages)
          /\ gpc \in {"created", "suspended"} /\ obs.nyield = steps
    /\ (obs.nreq > 0 \/ itPos > 0 \/ gpc \notin {"none", "created"} \/ db # Unbound) =>
          InSeq("evaluate_generator", stages)
    /\ gpc # "none" <=> InSeq("get_data", stages)

C7_Witness ==
    /\ mpc = "done" /\ logs = ResultLines /\ obs.nreset >= 1 /\ obs.nyield = 101

====
